---- MODULE Spec2Model ----
(***************************************************************************)
(* AppDashboardHelper (AppDashboard/lib/app_dashboard_helper.py): the      *)
(* dashboard's helper object, its per-request cache, the login cookie it   *)
(* builds and the UserAppServer / AppController RPCs it makes.             *)
(*                                                                         *)
(* Strings the code takes apart (e-mail addresses, application lists,      *)
(* cookie values, digests) are sequences of one-character strings.         *)
(* Strings it only compares (permission names, return messages) are        *)
(* TLA+ strings.                                                           *)
(***************************************************************************)
EXTENDS Integers, Sequences, FiniteSets, TLC

VARIABLES
  cache,      \* self.cache: [user_caps, query_user_data], two dicts
  uaserver,   \* self.uaserver is not None
  response,   \* the login cookie of self.response
  request,    \* the login cookie the current request arrived with
  directory,  \* the backends: the UserAppServer's user, token and
              \* application records, the AppController's node status
  lastOp,     \* the last call on the helper: arguments, RPC log, outcome
  steps       \* calls and requests so far

vars == <<cache, uaserver, response, request, directory, lastOp, steps>>

----------------------------------------------------------------------------
(* Bounds *)

\* Longest e-mail address drawn as an input of the cookie builder.
MaxIdLen == 3
\* Longest application list of a directory record.
MaxApps == 2
\* Calls on helpers and new requests in one run of the dashboard.
MaxSteps == 3

----------------------------------------------------------------------------
(* Strings *)

RECURSIVE JoinWith(_, _)
\* d.join(parts)
JoinWith(parts, d) ==
  IF parts = <<>> THEN <<>>
  ELSE IF Len(parts) = 1 THEN parts[1]
  ELSE parts[1] \o <<d>> \o JoinWith(Tail(parts), d)

RECURSIVE SplitOn(_, _)
\* s.split(d): always one field more than there are delimiters, so
\* ''.split(d) is [''].
SplitOn(s, d) ==
  IF s = <<>> THEN << <<>> >>
  ELSE IF Head(s) = d THEN << <<>> >> \o SplitOn(Tail(s), d)
  ELSE LET rest == SplitOn(Tail(s), d)
       IN  << <<Head(s)>> \o Head(rest) >> \o Tail(rest)

\* The positions of character c in s.
Positions(s, c) == {i \in 1..Len(s) : s[i] = c}

\* Hex digits of a character's code, as hashlib's hexdigest writes them.
Hex2(c) ==
  CASE c = "@" -> <<"4", "0">>
    [] c = ":" -> <<"3", "a">>
    [] c = "%" -> <<"2", "5">>
    [] c = "," -> <<"2", "c">>
    [] c = "S" -> <<"5", "3">>
    [] c = "a" -> <<"6", "1">>
    [] c = "b" -> <<"6", "2">>
    [] c = "g" -> <<"6", "7">>
    [] c = "h" -> <<"6", "8">>
    [] c = "i" -> <<"6", "9">>
    [] c = "p" -> <<"7", "0">>
    [] c = "q" -> <<"7", "1">>
    [] c = "x" -> <<"7", "8">>
    [] OTHER   -> <<"3", "f">>

\* Upper-case form of a hex digit, as urllib.quote writes it.
Upper(h) ==
  CASE h = "a" -> "A" [] h = "b" -> "B" [] h = "c" -> "C"
    [] h = "d" -> "D" [] h = "e" -> "E" [] h = "f" -> "F"
    [] OTHER   -> h

\* urllib's always_safe set, restricted to the characters of the model.
AlwaysSafe == {"a", "b", "g", "h", "i", "p", "q", "x", "S",
               "0", "1", "2", "3", "4", "5", "6", "7", "8", "9",
               "A", "B", "C", "D", "E", "F", "c", "d", "e", "f"}

\* The characters urllib.unquote turns back from their %XX form: every
\* character of the model that has a code.
Quotable == {"@", ":", "%", ",", "S", "a", "b", "g", "h", "i", "p", "q", "x"}

RECURSIVE quote(_)
\* urllib.quote(s): every character outside the safe set becomes %XX.
quote(s) ==
  IF s = <<>> THEN <<>>
  ELSE (IF Head(s) \in AlwaysSafe THEN <<Head(s)>>
        ELSE <<"%", Upper(Hex2(Head(s))[1]), Upper(Hex2(Head(s))[2])>>)
       \o quote(Tail(s))

RECURSIVE unquote(_)
\* urllib.unquote(s): a % followed by two hex digits becomes the character
\* with that code; any other % stays.
unquote(s) ==
  IF s = <<>> THEN <<>>
  ELSE IF Head(s) = "%" /\ Len(s) >= 3
          /\ \E c \in Quotable :
               <<Upper(s[2]), Upper(s[3])>>
                 = <<Upper(Hex2(c)[1]), Upper(Hex2(c)[2])>>
       THEN <<CHOOSE c \in Quotable :
                <<Upper(s[2]), Upper(s[3])>>
                  = <<Upper(Hex2(c)[1]), Upper(Hex2(c)[2])>>>>
            \o unquote(SubSeq(s, 4, Len(s)))
       ELSE <<Head(s)>> \o unquote(Tail(s))

RECURSIVE sha1_hexdigest(_)
\* hashlib.sha1(s).hexdigest(), idealised as a collision-free function into
\* strings of hex digits: the hex form of s.
sha1_hexdigest(s) ==
  IF s = <<>> THEN <<>> ELSE Hex2(Head(s)) \o sha1_hexdigest(Tail(s))

\* secret_key.GLOBAL_SECRET_KEY
GLOBAL_SECRET_KEY == <<"S">>

\* LocalState.encrypt_password(username, password)
encrypt_password(username, password) == sha1_hexdigest(username \o password)

----------------------------------------------------------------------------
(* The state the helper's methods read and write, as one record, so that a *)
(* method is an operator from a world to a world and a result.             *)

World ==
  [cache |-> cache, uaserver |-> uaserver, response |-> response,
   directory |-> directory, calls |-> <<>>]

\* A method's outcome: the world it leaves, what it returns, what it raises.
Result(w, ret, exc) == [w |-> w, ret |-> ret, exc |-> exc]

\* One RPC and how it ended, appended to the log of the current call.
Called(w, rpc, out) == [w EXCEPT !.calls = Append(@, <<rpc, out>>)]

\* Python values a public method returns.
PyTrue == [kind |-> "True", val |-> <<>>]
PyFalse == [kind |-> "False", val |-> <<>>]
PyNone == [kind |-> "None", val |-> <<>>]
PyList(l) == [kind |-> "list", val |-> l]
PyStr(s) == [kind |-> "str", val |-> s]
\* No value: the method raised.
Raised == [kind |-> "raised", val |-> <<>>]

\* The text get_user_data returns, by the fields the code's regexes find in
\* it: a user's record, the server's error text for an unknown user, and the
\* empty string query_user_data returns when the RPC raises.
UserRecordText(rec) ==
  [kind |-> "record", password |-> rec.password,
   applications |-> JoinWith(rec.applications, ":")]
UserNotFoundText == [kind |-> "error", password |-> <<>>, applications |-> <<>>]
EmptyText == [kind |-> "empty", password |-> <<>>, applications |-> <<>>]

----------------------------------------------------------------------------
(* The UserAppServer behind the SOAP proxy. *)

\* get_user_data(email, secret)
uas_get_user_data(dir, email) ==
  IF email \in DOMAIN dir.users THEN UserRecordText(dir.users[email])
  ELSE UserNotFoundText

\* commit_new_token(token, email, expiration, secret): the token becomes the
\* latest one recorded for the identity.
uas_commit_new_token(dir, token, email) ==
  [dir EXCEPT !.tokens = [e \in DOMAIN @ \cup {email} |->
                           IF e = email THEN token ELSE @[e]]]

\* commit_new_user(email, password, type, secret): 'true', or an error text
\* for an address already taken.
uas_commit_new_user(dir, email, password) ==
  IF email \in DOMAIN dir.users
  THEN [dir |-> dir, ret |-> "Error: user already exists"]
  ELSE [dir |-> [dir EXCEPT !.users =
                   [e \in DOMAIN @ \cup {email} |->
                      IF e = email
                      THEN [password |-> password, applications |-> <<>>,
                            capabilities |-> << "" >>]
                      ELSE @[e]]],
        ret |-> "true"]

\* get_capabilities(email, secret), already split on ':'.
uas_get_capabilities(dir, email) ==
  IF email \in DOMAIN dir.users THEN dir.users[email].capabilities
  ELSE <<"Error", " user not found">>

\* set_capabilities(email, caps, secret), caps given by its ':' fields.
uas_set_capabilities(dir, email, caps) ==
  IF email \in DOMAIN dir.users
  THEN [dir |-> [dir EXCEPT !.users[email].capabilities = caps],
        ret |-> "true"]
  ELSE [dir |-> dir, ret |-> "Error: user not found"]

----------------------------------------------------------------------------
(* AppDashboardHelper *)

\* get_uaserver: the proxy is built once; building it asks the controller
\* for the UserAppServer's host.
get_uaserver(w, o) ==
  IF w.uaserver THEN Result(w, PyTrue, "none")
  ELSE IF o.get_uaserver_host = "raise"
       THEN Result(Called(w, "get_uaserver_host", "raise"), Raised, "Exception")
       ELSE Result([Called(w, "get_uaserver_host", "ok")
                      EXCEPT !.uaserver = TRUE], PyTrue, "none")

\* query_user_data without its except branch: the RPC's exception reaches
\* the caller.
query_user_data_Uncaught(w, email, o) ==
  IF email \in DOMAIN w.cache.query_user_data
  THEN Result(w, w.cache.query_user_data[email], "none")
  ELSE LET u == get_uaserver(w, o) IN
       IF u.exc # "none" THEN Result(u.w, EmptyText, "Exception")
       ELSE IF o.get_user_data = "raise"
       THEN Result(Called(u.w, "get_user_data", "raise"), EmptyText,
                   "Exception")
       ELSE LET user_data == uas_get_user_data(u.w.directory, email)
                w1 == Called(u.w, "get_user_data", "ok")
            IN  Result([w1 EXCEPT !.cache.query_user_data =
                          (email :> user_data) @@ @],
                       user_data, "none")

\* query_user_data(email): ret is the user data text.
query_user_data(w, email, o) ==
  IF email \in DOMAIN w.cache.query_user_data
  THEN Result(w, w.cache.query_user_data[email], "none")
  ELSE LET u == get_uaserver(w, o) IN
       IF u.exc # "none" THEN Result(u.w, EmptyText, "none")
       ELSE IF o.get_user_data = "raise"
       THEN Result(Called(u.w, "get_user_data", "raise"), EmptyText, "none")
       ELSE LET user_data == uas_get_user_data(u.w.directory, email)
                w1 == Called(u.w, "get_user_data", "ok")
            IN  Result([w1 EXCEPT !.cache.query_user_data =
                          (email :> user_data) @@ @],
                       user_data, "none")

\* re.search('^(.*)@', email): the greedy group ends at the last '@'; no
\* match without one. (No string of the model holds a line break.)
NickMatch(email) ==
  IF Positions(email, "@") = {} THEN [found |-> FALSE, group |-> <<>>]
  ELSE LET last == CHOOSE i \in Positions(email, "@") :
                     \A j \in Positions(email, "@") : j <= i
       IN  [found |-> TRUE, group |-> SubSeq(email, 1, last - 1)]

\* get_appengine_hash(email, nick, apps)
get_appengine_hash(email, nick, apps) ==
  sha1_hexdigest(email \o nick \o apps \o GLOBAL_SECRET_KEY)

\* The format with the nickname and the application list exchanged.
CookieFormat_Swapped(email, nick, apps, hsh) ==
  email \o <<":">> \o apps \o <<":">> \o nick \o <<":">> \o hsh

\* "{0}:{1}:{2}:{3}".format(email, nick, apps, hsh)
CookieFormat(email, nick, apps, hsh) ==
  email \o <<":">> \o nick \o <<":">> \o apps \o <<":">> \o hsh

\* get_cookie_value(email, apps): .group(1) of no match raises.
get_cookie_value(email, apps) ==
  LET m == NickMatch(email) IN
  IF ~m.found THEN [exc |-> "AttributeError", value |-> <<>>]
  ELSE [exc |-> "none",
        value |-> quote(CookieFormat(email, m.group, apps,
                                     get_appengine_hash(email, m.group, apps)))]

\* re.search(USER_APP_LIST_REGEX, user_data)
AppListMatch(user_data) ==
  [found |-> user_data.kind = "record", group |-> user_data.applications]

\* The group taken as it is, its APP_DELIMITERs left in.
AppsOfMatch_Unsplit(group) == group

\* ",".join(app_re.group(1).split(APP_DELIMITER))
AppsOfMatch(group) == JoinWith(SplitOn(group, ":"), ",")

\* set_appserver_cookie(email)
set_appserver_cookie(w, email, o) ==
  LET q == query_user_data(w, email, o)
      app_re == AppListMatch(q.ret)
      apps == IF app_re.found THEN AppsOfMatch(app_re.group) ELSE <<>>
      c == get_cookie_value(email, apps)
  IN  IF c.exc # "none" THEN Result(q.w, Raised, c.exc)
      ELSE Result([q.w EXCEPT !.response = [kind |-> "set", value |-> c.value]],
                  PyNone, "none")

\* remove_appserver_cookie()
remove_appserver_cookie(w) ==
  [w EXCEPT !.response = [kind |-> "deleted", value |-> <<>>]]

\* create_token(token, email): every exception is logged and dropped.
create_token(w, token, email, o) ==
  LET u == get_uaserver(w, o) IN
  IF u.exc # "none" THEN u.w
  ELSE IF o.commit_new_token = "raise"
  THEN Called(u.w, "commit_new_token", "raise")
  ELSE [Called(u.w, "commit_new_token", "ok")
          EXCEPT !.directory = uas_commit_new_token(@, token, email)]

\* re.search(USER_DATA_PASSWORD_REGEX, user_data): a record's password field
\* is a hex digest, never empty.
PasswordMatch(user_data) ==
  [found |-> user_data.kind = "record" /\ user_data.password # <<>>,
   group |-> user_data.password]

\* A comparison that only asks for a stored password.
PasswordMismatch_StoredOnly(server_pwd, encrypted_pass) == server_pwd = <<>>

\* The comparison of login_user: server_pwd != encrypted_pass.
PasswordMismatch(server_pwd, encrypted_pass) == server_pwd # encrypted_pass

\* login_user committing the token before it compares the passwords.
login_user_TokenFirst(w, email, password, o) ==
  LET q == query_user_data(w, email, o)
      server_re == PasswordMatch(q.ret)
      t == create_token(q.w, email, email, o)
  IN  IF ~server_re.found THEN Result(q.w, PyFalse, "none")
      ELSE IF PasswordMismatch(server_re.group,
                               encrypt_password(email, password))
      THEN Result(t, PyFalse, "none")
      ELSE LET s == set_appserver_cookie(t, email, o)
           IN  IF s.exc # "none" THEN s ELSE Result(s.w, PyTrue, "none")

\* login_user(email, password)
login_user(w, email, password, o) ==
  LET q == query_user_data(w, email, o)
      server_re == PasswordMatch(q.ret)
  IN  IF q.exc # "none" THEN Result(q.w, Raised, q.exc)
      ELSE IF ~server_re.found THEN Result(q.w, PyFalse, "none")
      ELSE IF PasswordMismatch(server_re.group,
                               encrypt_password(email, password))
      THEN Result(q.w, PyFalse, "none")
      ELSE LET s == set_appserver_cookie(
                      create_token(q.w, email, email, o), email, o)
           IN  IF s.exc # "none" THEN s ELSE Result(s.w, PyTrue, "none")

\* The token name logout_user commits.
Invalid == <<"invalid">>

\* users.get_current_user(): the identity of the request's login cookie, the
\* first of its fields; no user without a cookie.
get_current_user ==
  IF request = <<>> THEN [found |-> FALSE, email |-> <<>>]
  ELSE [found |-> TRUE, email |-> SplitOn(unquote(request), ":")[1]]

\* logout_user()
logout_user(w, o) ==
  LET user == get_current_user IN
  IF ~user.found THEN Result(w, PyTrue, "none")
  ELSE Result(remove_appserver_cookie(
                create_token(w, Invalid, user.email, o)), PyNone, "none")

\* The AppController's get_role_info(): one node runs every role of the
\* deployment.
acc_get_role_info == << [jobs |-> {"shadow", "login"}, public_ip |-> <<"i">>] >>

\* get_host_with_role(role): '' when the RPC raises, None when the loop ends
\* without a node of that role.
get_host_with_role(w, role, o) ==
  IF o.get_role_info = "raise"
  THEN Result(Called(w, "get_role_info", "raise"), PyStr(<<>>), "none")
  ELSE LET nodes == acc_get_role_info
           hit == {i \in 1..Len(nodes) : role \in nodes[i].jobs}
           w1 == Called(w, "get_role_info", "ok")
       IN  IF hit = {} THEN Result(w1, PyNone, "none")
           ELSE Result(w1, PyStr(nodes[CHOOSE i \in hit :
                                         \A j \in hit : i <= j].public_ip),
                       "none")

\* get_login_host()
get_login_host(w, o) == get_host_with_role(w, "login", o)

\* get_user_capabilities(email): the except branch returns nothing, so the
\* caller gets None.
get_user_capabilities(w, email, o) ==
  IF email \in DOMAIN w.cache.user_caps
  THEN Result(w, PyList(w.cache.user_caps[email]), "none")
  ELSE LET u == get_uaserver(w, o) IN
       IF u.exc # "none" THEN Result(u.w, PyNone, "none")
       ELSE IF o.get_capabilities = "raise"
       THEN Result(Called(u.w, "get_capabilities", "raise"), PyNone, "none")
       ELSE LET caps_list == uas_get_capabilities(u.w.directory, email)
                w1 == Called(u.w, "get_capabilities", "ok")
            IN  Result([w1 EXCEPT !.cache.user_caps =
                          (email :> caps_list) @@ @],
                       PyList(caps_list), "none")

\* x in seq
In(x, seq) == \E i \in 1..Len(seq) : seq[i] = x

\* i_can_upload(): 'upload_app' in None is a TypeError.
i_can_upload(w, o) ==
  LET user == get_current_user IN
  IF ~user.found THEN Result(w, PyFalse, "none")
  ELSE LET c == get_user_capabilities(w, user.email, o) IN
       IF c.ret.kind = "None" THEN Result(c.w, Raised, "TypeError")
       ELSE IF In("upload_app", c.ret.val) THEN Result(c.w, PyTrue, "none")
       ELSE Result(c.w, PyFalse, "none")

\* get_user_app_list(): apps_list is bound only when the regex matches.
get_user_app_list(w, o) ==
  LET user == get_current_user IN
  IF ~user.found THEN Result(w, PyList(<<>>), "none")
  ELSE LET q == query_user_data(w, user.email, o)
           app_resp == AppListMatch(q.ret)
       IN  IF app_resp.found
           THEN Result(q.w, PyList(SplitOn(app_resp.group, ":")), "none")
           ELSE Result(q.w, Raised, "UnboundLocalError")

\* get_status_info(): the node list, [] when the RPC raises.
get_status_info(w, o) ==
  IF o.get_stats = "raise"
  THEN Result(Called(w, "get_stats", "raise"), PyList(<<>>), "none")
  ELSE Result(Called(w, "get_stats", "ok"), PyList(w.directory.stats), "none")

\* raise AppHelperException(...)
HelperError(w) == Result(w, Raised, "AppHelperException")

\* create_new_user(email, password)
create_new_user(w, email, password, o) ==
  LET u == get_uaserver(w, o) IN
  IF u.exc # "none" THEN HelperError(u.w)
  ELSE IF o.commit_new_user1 = "raise"
  THEN HelperError(Called(u.w, "commit_new_user", "raise"))
  ELSE LET r1 == uas_commit_new_user(u.w.directory, email,
                                     encrypt_password(email, password))
           w1 == [Called(u.w, "commit_new_user", r1.ret)
                    EXCEPT !.directory = r1.dir]
       IN
  IF r1.ret # "true" THEN HelperError(w1)
  ELSE LET username == NickMatch(email) IN
  IF ~username.found THEN HelperError(w1)
  ELSE LET h == get_login_host(w1, o)
           host == IF h.ret.kind = "None" THEN <<"None">> ELSE h.ret.val
           xmpp_user == username.group \o <<"@">> \o host
       IN
  IF o.commit_new_user2 = "raise"
  THEN HelperError(Called(h.w, "commit_new_user", "raise"))
  ELSE LET r2 == uas_commit_new_user(h.w.directory, xmpp_user,
                                     encrypt_password(xmpp_user, password))
           w2 == [Called(h.w, "commit_new_user", r2.ret)
                    EXCEPT !.directory = r2.dir]
       IN
  IF r2.ret # "true" THEN HelperError(w2)
  ELSE LET s == set_appserver_cookie(
                  create_token(w2, email, email, o), email, o)
       IN  IF s.exc # "none" THEN HelperError(s.w)
           ELSE Result(s.w, PyTrue, "none")

\* The message of a successful upload.
UploadedMessage == PyStr(<<"Application uploaded successfully.">>)

\* upload_app taking any answer of upload_tgz for success.
upload_app_AnyAnswer(w, o) ==
  LET user == get_current_user IN
  IF ~user.found THEN HelperError(w)
  ELSE LET w1 == Called(w, "upload_tgz", o.upload_tgz) IN
       CASE o.upload_tgz \in {"true", "false"} ->
              Result(w1, UploadedMessage, "none")
         [] o.upload_tgz \in {"faultType", "HTTPError"} ->
              Result(w1, UploadedMessage, "none")
         [] OTHER -> HelperError(w1)

\* upload_app(upload_file): a SOAP fault and an HTTP error of upload_tgz are
\* taken for success.
upload_app(w, o) ==
  LET user == get_current_user IN
  IF ~user.found THEN HelperError(w)
  ELSE LET w1 == Called(w, "upload_tgz", o.upload_tgz) IN
       CASE o.upload_tgz = "true" -> Result(w1, UploadedMessage, "none")
         [] o.upload_tgz \in {"faultType", "HTTPError"} ->
              Result(w1, UploadedMessage, "none")
         [] OTHER -> HelperError(w1)

\* USER_CAPABILITIES_DELIMITER.join(new_caps), by its ':' fields.
JoinCaps(new_caps) == IF new_caps = <<>> THEN << "" >> ELSE new_caps

\* new_caps = caps_list; new_caps.append(perm): caps_list is the list object
\* the cache holds, so the cache sees the append.
AppendToCached(w, email, perm) ==
  [w EXCEPT !.cache.user_caps[email] = Append(@, perm)]

\* add_user_permissions(email, perm)
add_user_permissions(w, email, perm, o) ==
  LET c == get_user_capabilities(w, email, o)
      u == get_uaserver(c.w, [o EXCEPT !.get_uaserver_host =
                                         o.get_uaserver_host2])
  IN  IF u.exc # "none" THEN Result(u.w, PyFalse, "none")
      ELSE IF c.ret.kind = "None" THEN Result(u.w, PyFalse, "none")
      ELSE IF In(perm, c.ret.val) THEN Result(u.w, PyTrue, "none")
      ELSE LET w1 == AppendToCached(u.w, email, perm)
               new_caps == Append(c.ret.val, perm)
           IN
      IF o.set_capabilities = "raise"
      THEN Result(Called(w1, "set_capabilities", "raise"), PyFalse, "none")
      ELSE IF o.set_capabilities = "refuse"
      THEN Result(Called(w1, "set_capabilities", "Error"), PyFalse, "none")
      ELSE LET r == uas_set_capabilities(w1.directory, email,
                                         JoinCaps(new_caps))
               w2 == [Called(w1, "set_capabilities", r.ret)
                        EXCEPT !.directory = r.dir]
           IN  IF r.ret = "true"
               THEN Result([w2 EXCEPT !.cache.user_caps[email] = new_caps],
                           PyTrue, "none")
               ELSE Result(w2, PyFalse, "none")

\* The list remove_user_permissions builds: caps_list without perm.
Without(caps_list, perm) ==
  SelectSeq(caps_list, LAMBDA pitem : pitem # perm)

\* remove_user_permissions(email, perm)
remove_user_permissions(w, email, perm, o) ==
  LET c == get_user_capabilities(w, email, o)
      u == get_uaserver(c.w, [o EXCEPT !.get_uaserver_host =
                                         o.get_uaserver_host2])
  IN  IF u.exc # "none" THEN Result(u.w, PyFalse, "none")
      ELSE IF c.ret.kind = "None" THEN Result(u.w, PyFalse, "none")
      ELSE IF ~In(perm, c.ret.val) THEN Result(u.w, PyTrue, "none")
      ELSE LET new_caps == Without(c.ret.val, perm) IN
      IF o.set_capabilities = "raise"
      THEN Result(Called(u.w, "set_capabilities", "raise"), PyFalse, "none")
      ELSE IF o.set_capabilities = "refuse"
      THEN Result(Called(u.w, "set_capabilities", "Error"), PyFalse, "none")
      ELSE LET r == uas_set_capabilities(u.w.directory, email,
                                         JoinCaps(new_caps))
               w2 == [Called(u.w, "set_capabilities", r.ret)
                        EXCEPT !.directory = r.dir]
           IN  IF r.ret = "true"
               THEN Result([w2 EXCEPT !.cache.user_caps[email] = new_caps],
                           PyTrue, "none")
               ELSE Result(w2, PyFalse, "none")

\* An int.
PyInt(n) == [kind |-> "int", val |-> n]
\* A dict, as the function from its keys to its values.
PyDict(d) == [kind |-> "dict", val |-> d]

\* \s and \d of the regular expressions.
Space == {" ", "\n"}
DigitValue(c) ==
  CASE c = "0" -> 0 [] c = "1" -> 1 [] c = "2" -> 2 [] c = "3" -> 3
    [] c = "4" -> 4 [] c = "5" -> 5 [] c = "6" -> 6 [] c = "7" -> 7
    [] c = "8" -> 8 [] c = "9" -> 9 [] OTHER -> -1
IsDigit(c) == DigitValue(c) >= 0

\* int(digits)
RECURSIVE int(_)
int(digits) ==
  IF digits = <<>> THEN 0
  ELSE 10 * int(SubSeq(digits, 1, Len(digits) - 1))
         + DigitValue(digits[Len(digits)])

\* str(n) of an int n >= 0
RECURSIVE str(_)
str(n) ==
  LET d == CHOOSE c \in {"0", "1", "2", "3", "4", "5", "6", "7", "8", "9"} :
             DigitValue(c) = n % 10
  IN  IF n < 10 THEN <<d>> ELSE Append(str(n \div 10), d)

\* re.search(GET_APP_PORTS_REGEX, app_data), the pattern being
\* ".*\sports: (\d+)[\s|:]": a space, the word, the longest run of digits
\* and a delimiter; '.' matches no line break, the search takes the
\* leftmost start and, from it, the last place the rest matches. A text is a
\* sequence of its characters and of the word "ports: ".
GetAppPortsMatch(app_data) ==
  LET n == Len(app_data)
      DigitsEnd(i) ==
        CHOOSE j \in (i - 1)..n :
          /\ \A l \in i..j : IsDigit(app_data[l])
          /\ j = n \/ ~IsDigit(app_data[j + 1])
      At(k) ==
        /\ app_data[k] \in Space
        /\ k + 2 <= n
        /\ app_data[k + 1] = "ports: "
        /\ DigitsEnd(k + 2) >= k + 2
        /\ DigitsEnd(k + 2) < n
        /\ app_data[DigitsEnd(k + 2) + 1] \in Space \cup {"|", ":"}
      From(p) == {k \in p..n : At(k) /\ \A l \in p..(k - 1) : app_data[l] # "\n"}
      starts == {p \in 1..n : From(p) # {}}
  IN  IF starts = {} THEN [found |-> FALSE, group |-> <<>>]
      ELSE LET p == CHOOSE x \in starts : \A y \in starts : x <= y
               k == CHOOSE x \in From(p) : \A y \in From(p) : y <= x
           IN  [found |-> TRUE,
                group |-> SubSeq(app_data, k + 2, DigitsEnd(k + 2))]

\* The UserAppServer's get_app_data(appname, secret): the application's
\* record as text, an error text for an application it does not know.
AppNotFoundText == <<"Error:", " ", "app", " ", "not", " ", "found">>
uas_get_app_data(dir, appname) ==
  IF appname \in DOMAIN dir.apps THEN dir.apps[appname] ELSE AppNotFoundText

\* get_app_port(appname): the port of the record; AppHelperException when
\* the lookup raises or the record names no port.
get_app_port(w, appname, o) ==
  LET u == get_uaserver(w, o) IN
  IF u.exc # "none" THEN HelperError(u.w)
  ELSE IF o.get_app_data = "raise"
  THEN HelperError(Called(u.w, "get_app_data", "raise"))
  ELSE LET w1 == Called(u.w, "get_app_data", "ok")
           result == GetAppPortsMatch(uas_get_app_data(w1.directory, appname))
       IN  IF result.found THEN Result(w1, PyInt(int(result.group)), "none")
           ELSE HelperError(w1)

\* does_app_exist(appname): True when the number the pattern captures is
\* positive; False otherwise and when the lookup raises.
does_app_exist(w, appname, o) ==
  LET u == get_uaserver(w, o) IN
  IF u.exc # "none" THEN Result(u.w, PyFalse, "none")
  ELSE IF o.get_app_data = "raise"
  THEN Result(Called(u.w, "get_app_data", "raise"), PyFalse, "none")
  ELSE LET w1 == Called(u.w, "get_app_data", "ok")
           search_data ==
             GetAppPortsMatch(uas_get_app_data(w1.directory, appname))
       IN  IF search_data.found /\ int(search_data.group) > 0
           THEN Result(w1, PyTrue, "none")
           ELSE Result(w1, PyFalse, "none")

\* The messages of delete_app.
NotRunningMessage == PyStr(<<"The given application is not currently running.">>)
RemoveErrorMessage ==
  PyStr(<<"There was an error attempting to remove the application.">>)
RemovedMessage ==
  PyStr(<<"Application removed successfully. Please wait for your app to shut down.">>)

\* delete_app with no look at does_app_exist.
delete_app_Unchecked(w, appname, o) ==
  LET w1 == Called(w, "stop_app", o.stop_app) IN
  IF o.stop_app = "true" THEN Result(w1, RemovedMessage, "none")
  ELSE Result(w1, RemoveErrorMessage, "none")

\* delete_app(appname): every exception of the body is caught, an answer of
\* stop_app that is no str (the write to stderr raises TypeError) included.
delete_app(w, appname, o) ==
  LET e == does_app_exist(w, appname, o) IN
  IF e.ret # PyTrue THEN Result(e.w, NotRunningMessage, "none")
  ELSE LET w1 == Called(e.w, "stop_app", o.stop_app) IN
       IF o.stop_app = "true" THEN Result(w1, RemovedMessage, "none")
       ELSE Result(w1, RemoveErrorMessage, "none")

\* The outcomes of the RPCs made for the n-th running application of the
\* loop of get_application_info.
OutcomesAt(o, n) ==
  IF n = 0 THEN o
  ELSE [o EXCEPT !.get_role_info = o.get_role_info2,
                 !.get_uaserver_host = o.get_uaserver_host2,
                 !.get_app_data = o.get_app_data2]

\* The loop of get_application_info over apps, the (name, running) pairs of
\* status[0]['apps'] in the order keys() gives them, from the i-th on; ret
\* is the dict so far and n the number of running applications seen. The
\* loop ends at the key 'none'; "http://" + None is a TypeError, raised
\* before get_app_port is called, and only AppHelperException is caught.
RECURSIVE ApplicationInfoLoop(_, _, _, _, _, _)
ApplicationInfoLoop(w, apps, i, ret, n, o) ==
  IF i > Len(apps) THEN Result(w, PyDict(ret), "none")
  ELSE LET app == apps[i][1] IN
       IF app = <<"none">> THEN Result(w, PyDict(ret), "none")
       ELSE IF ~apps[i][2]
       THEN ApplicationInfoLoop(w, apps, i + 1, (app :> PyNone) @@ ret, n, o)
       ELSE LET h == get_login_host(w, OutcomesAt(o, n)) IN
            IF h.ret.kind = "None" THEN Result(h.w, Raised, "TypeError")
            ELSE LET port == get_app_port(h.w, app, OutcomesAt(o, n))
                     url == PyStr(<<"http://">> \o h.ret.val \o <<":">>
                                    \o str(port.ret.val))
                 IN  ApplicationInfoLoop(
                       port.w, apps, i + 1,
                       (app :> IF port.exc = "none" THEN url ELSE PyNone)
                         @@ ret,
                       n + 1, o)

\* get_application_info()
get_application_info(w, o) ==
  LET status == get_status_info(w, o) IN
  IF Len(status.ret.val) > 0
  THEN ApplicationInfoLoop(status.w, status.ret.val[1].apps, 1, <<>>, 0, o)
  ELSE Result(status.w, PyDict(<<>>), "none")


----------------------------------------------------------------------------
(* The dashboard: one helper per request, calls on it in any order, each   *)
(* RPC of a call free to raise.                                            *)

\* Records of applications, as get_app_data gives them: one on port 80, one
\* whose port is written with a leading zero and followed by a second port,
\* one on port 0, one whose line has no space before the word.
Port80Text == <<"num_ports:", "1", "\n", "ports: ", "8", "0", "\n">>
Port08Text == <<" ", "ports: ", "0", "8", ":", "9", "\n">>
Port0Text == <<"\n", "ports: ", "0", " ">>
NoSpaceText == <<"ports: ", "8", "0", "\n">>
AppDataTexts == {Port80Text, Port08Text, Port0Text, NoSpaceText}

Alice == <<"a", "@", "x">>
Bob == <<"b", "@", "x">>
\* The identities the dashboard's forms are filled in with.
Users == {Alice, Bob}
Passwords == {<<"p">>, <<"q">>}
\* get_all_permission_items()
get_all_permission_items == <<"upload_app">>
Perms == {get_all_permission_items[i] : i \in 1..Len(get_all_permission_items)}
Roles == {"login", "db_master"}

Ends == {"ok", "raise"}
\* Every RPC answers.
AllOk ==
  [get_uaserver_host |-> "ok", get_uaserver_host2 |-> "ok",
   get_user_data |-> "ok", commit_new_token |-> "ok",
   commit_new_user1 |-> "ok", commit_new_user2 |-> "ok",
   get_role_info |-> "ok", get_capabilities |-> "ok",
   set_capabilities |-> "ok", upload_tgz |-> "true", get_stats |-> "ok",
   get_role_info2 |-> "ok", get_app_data |-> "ok", get_app_data2 |-> "ok",
   stop_app |-> "true"]

\* __init__: a helper with an empty cache, no connection, and a response
\* that sets no cookie.
NewHelper ==
  /\ cache = [user_caps |-> <<>>, query_user_data |-> <<>>]
  /\ uaserver = FALSE
  /\ response = [kind |-> "none", value |-> <<>>]

NoCall ==
  [op |-> "__init__", email |-> <<>>, arg |-> <<>>, user |-> <<>>,
   calls |-> <<>>, ret |-> PyNone, exc |-> "none"]

\* A deployment with one registered user, who is logged out, or logged in by
\* an earlier request.
Init ==
  /\ NewHelper
  /\ \E loggedIn \in BOOLEAN :
       /\ request = IF loggedIn THEN get_cookie_value(Alice, <<"g">>).value
                    ELSE <<>>
       /\ directory =
            [users |-> (Alice :> [password |-> encrypt_password(Alice, <<"p">>),
                                  applications |-> << <<"g">> >>,
                                  capabilities |-> << "" >>]),
             tokens |-> IF loggedIn THEN (Alice :> Alice) ELSE <<>>,
             apps |-> (<<"g">> :> Port80Text),
             stats |-> << [apps |-> << <<(<<"g">>), TRUE>> >>] >>]
  /\ lastOp = NoCall
  /\ steps = 0

\* A call returns: the helper and the directory are as the method left them.
Return(op, email, arg, r) ==
  /\ lastOp = NoCall
  /\ steps < MaxSteps
  /\ steps' = steps + 1
  /\ cache' = r.w.cache
  /\ uaserver' = r.w.uaserver
  /\ response' = r.w.response
  /\ directory' = r.w.directory
  /\ lastOp' = [op |-> op, email |-> email, arg |-> arg,
                user |-> get_current_user.email,
                calls |-> r.w.calls, ret |-> r.ret, exc |-> r.exc]
  /\ UNCHANGED request

\* The request handler takes the outcome of its call and goes on: the helper
\* serves one call at a time.
Handled ==
  /\ lastOp # NoCall
  /\ lastOp' = NoCall
  /\ UNCHANGED <<cache, uaserver, response, request, directory, steps>>

\* The browser takes the response's cookie and sends the next request, which
\* a new helper serves.
NewRequest ==
  /\ lastOp = NoCall
  /\ steps < MaxSteps
  /\ steps' = steps + 1
  /\ request' = CASE response.kind = "set" -> response.value
                  [] response.kind = "deleted" -> <<>>
                  [] OTHER -> request
  /\ cache' = [user_caps |-> <<>>, query_user_data |-> <<>>]
  /\ uaserver' = FALSE
  /\ response' = [kind |-> "none", value |-> <<>>]
  /\ lastOp' = NoCall
  /\ UNCHANGED directory

\* The outcomes of set S with slot k ending in each way of V.
Vary(S, k, V) == {[o EXCEPT ![k] = v] : o \in S, v \in V}

RECURSIVE VaryAll(_, _)
VaryAll(S, slots) ==
  IF slots = {} THEN S
  ELSE LET k == CHOOSE x \in slots : TRUE
       IN  VaryAll(Vary(S, k,
                        CASE k = "set_capabilities" -> {"ok", "refuse", "raise"}
                          [] k = "stop_app" ->
                               {"true", "false", "None", "raise"}
                          [] k = "upload_tgz" ->
                               {"true", "false", "faultType", "HTTPError",
                                "raise"}
                          [] OTHER -> Ends),
                   slots \ {k})

\* How the RPCs of one call may end. An RPC the call never reaches, because
\* an earlier one raised and ended the call, is left answering: its outcome
\* changes nothing.
Outcomes(slots) == VaryAll({AllOk}, slots)

\* Once slot k raised, every slot of later is left answering.
EndsCall(o, k, later) == o[k] = "raise" => \A l \in later : o[l] = AllOk[l]

LoginOutcomes ==
  {o \in Outcomes({"get_uaserver_host", "get_user_data", "commit_new_token"}) :
     /\ EndsCall(o, "get_uaserver_host", {"get_user_data", "commit_new_token"})
     /\ EndsCall(o, "get_user_data", {"commit_new_token"})}

LogoutOutcomes ==
  {o \in Outcomes({"get_uaserver_host", "commit_new_token"}) :
     EndsCall(o, "get_uaserver_host", {"commit_new_token"})}

CreateOutcomes ==
  {o \in Outcomes({"get_uaserver_host", "commit_new_user1", "get_role_info",
                   "commit_new_user2", "commit_new_token", "get_user_data"}) :
     /\ EndsCall(o, "get_uaserver_host",
              {"commit_new_user1", "get_role_info", "commit_new_user2",
               "commit_new_token", "get_user_data"})
     /\ EndsCall(o, "commit_new_user1",
              {"get_role_info", "commit_new_user2", "commit_new_token",
               "get_user_data"})
     /\ EndsCall(o, "commit_new_user2", {"commit_new_token", "get_user_data"})}

CapsOutcomes ==
  {o \in Outcomes({"get_uaserver_host", "get_capabilities"}) :
     EndsCall(o, "get_uaserver_host", {"get_capabilities"})}

DataOutcomes ==
  {o \in Outcomes({"get_uaserver_host", "get_user_data"}) :
     EndsCall(o, "get_uaserver_host", {"get_user_data"})}

PermOutcomes ==
  {o \in Outcomes({"get_uaserver_host", "get_uaserver_host2",
                   "get_capabilities", "set_capabilities"}) :
     /\ EndsCall(o, "get_uaserver_host", {"get_capabilities", "set_capabilities"})
     /\ EndsCall(o, "get_capabilities", {"get_uaserver_host2", "set_capabilities"})
     /\ EndsCall(o, "get_uaserver_host2", {"set_capabilities"})}

LoginUser ==
  \E email \in Users, password \in Passwords, o \in LoginOutcomes :
    Return("login_user", email, password,
           login_user(World, email, password, o))

LogoutUser ==
  \E o \in LogoutOutcomes :
    Return("logout_user", <<>>, <<>>, logout_user(World, o))

CreateNewUser ==
  \E email \in Users, password \in Passwords, o \in CreateOutcomes :
    Return("create_new_user", email, password,
           create_new_user(World, email, password, o))

UploadApp ==
  \E o \in Outcomes({"upload_tgz"}) :
    Return("upload_app", <<>>, <<>>, upload_app(World, o))

GetUserCapabilities ==
  \E email \in Users, o \in CapsOutcomes :
    Return("get_user_capabilities", email, <<>>,
           get_user_capabilities(World, email, o))

ICanUpload ==
  \E o \in CapsOutcomes :
    Return("i_can_upload", <<>>, <<>>, i_can_upload(World, o))

GetUserAppList ==
  \E o \in DataOutcomes :
    Return("get_user_app_list", <<>>, <<>>, get_user_app_list(World, o))

GetHostWithRole ==
  \E role \in Roles, o \in Outcomes({"get_role_info"}) :
    Return("get_host_with_role", <<>>, <<role>>,
           get_host_with_role(World, role, o))

GetStatusInfo ==
  \E o \in Outcomes({"get_stats"}) :
    Return("get_status_info", <<>>, <<>>, get_status_info(World, o))

AddUserPermissions ==
  \E email \in Users, perm \in Perms, o \in PermOutcomes :
    Return("add_user_permissions", email, <<perm>>,
           add_user_permissions(World, email, perm, o))

RemoveUserPermissions ==
  \E email \in Users, perm \in Perms, o \in PermOutcomes :
    Return("remove_user_permissions", email, <<perm>>,
           remove_user_permissions(World, email, perm, o))

Next ==
  \/ NewRequest
  \/ Handled
  \/ LoginUser
  \/ LogoutUser
  \/ CreateNewUser
  \/ UploadApp
  \/ GetUserCapabilities
  \/ ICanUpload
  \/ GetUserAppList
  \/ GetHostWithRole
  \/ GetStatusInfo
  \/ AddUserPermissions
  \/ RemoveUserPermissions

Spec == Init /\ [][Next]_vars

----------------------------------------------------------------------------
(* The cookie builder on its own: set_appserver_cookie and get_cookie_value *)
(* applied to a directory record drawn from the bounded inputs.             *)

\* Characters of an e-mail address: a letter, the '@', the cookie's field
\* delimiter and the escape character of the percent-encoding.
IdChars == {"a", "@", ":", "%"}
AppNames == {<<"g">>, <<"h">>}

\* The sequences over S of lengths lo..hi.
SeqsOf(S, lo, hi) == UNION {[1..k -> S] : k \in lo..hi}

Identities == SeqsOf(IdChars, 1, MaxIdLen)
AppLists == SeqsOf(AppNames, 0, MaxApps)

InitCookie ==
  /\ NewHelper
  /\ request = <<>>
  /\ \E email \in Identities, apps \in AppLists :
       directory =
         [users |-> (email :> [password |-> encrypt_password(email, <<"p">>),
                               applications |-> apps,
                               capabilities |-> << "" >>]),
          tokens |-> <<>>]
  /\ lastOp = NoCall
  /\ steps = 0

SetAppserverCookie ==
  \E email \in DOMAIN directory.users, o \in DataOutcomes :
    Return("set_appserver_cookie", email, <<>>,
           set_appserver_cookie(World, email, o))

GetCookieValue ==
  \E email \in DOMAIN directory.users :
    LET apps == JoinWith(directory.users[email].applications, ",")
        c == get_cookie_value(email, apps)
    IN  Return("get_cookie_value", email, apps,
               Result(World, IF c.exc = "none" THEN PyStr(c.value) ELSE Raised,
                      c.exc))

NextCookie ==
  \/ SetAppserverCookie
  \/ GetCookieValue
  \/ Handled

SpecCookie == InitCookie /\ [][NextCookie]_vars

----------------------------------------------------------------------------
(* The application pages: get_application_info, get_app_port,              *)
(* does_app_exist and delete_app on a deployment drawn from the bounded    *)
(* inputs.                                                                 *)

\* The keys of status[0]['apps']: two applications and the placeholder.
StatusKeys == {<<"g">>, <<"h">>, <<"none">>}
\* The sequences of distinct elements of S: the orders in which a dict with
\* keys from S is iterated.
OrdersOf(S) ==
  {q \in SeqsOf(S, 0, Cardinality(S)) :
     \A i, j \in 1..Len(q) : i # j => q[i] # q[j]}
\* The 'apps' mappings of a node: each key with whether the application is
\* running, the placeholder never.
AppsMappings ==
  UNION {{[i \in 1..Len(q) |-> <<q[i], running[i]>>] :
            running \in {r \in [1..Len(q) -> BOOLEAN] :
                           \A i \in 1..Len(q) : q[i] = <<"none">> => ~r[i]}} :
         q \in OrdersOf(StatusKeys)}
\* What get_stats answers: no node, or one node.
StatsLists == {<<>>} \cup {<<[apps |-> m]>> : m \in AppsMappings}

InitApps ==
  /\ NewHelper
  /\ request = <<>>
  /\ \E stats \in StatsLists, g \in AppDataTexts,
        h \in {Port80Text, AppNotFoundText} :
       directory = [users |-> <<>>, tokens |-> <<>>,
                    apps |-> (<<"g">> :> g) @@ (<<"h">> :> h),
                    stats |-> stats]
  /\ lastOp = NoCall
  /\ steps = 0

ApplicationInfoOutcomes ==
  {o \in Outcomes({"get_stats", "get_role_info", "get_role_info2",
                   "get_uaserver_host", "get_uaserver_host2",
                   "get_app_data", "get_app_data2"}) :
     EndsCall(o, "get_stats",
              {"get_role_info", "get_role_info2", "get_uaserver_host",
               "get_uaserver_host2", "get_app_data", "get_app_data2"})}

AppDataOutcomes ==
  {o \in Outcomes({"get_uaserver_host", "get_app_data"}) :
     EndsCall(o, "get_uaserver_host", {"get_app_data"})}

DeleteOutcomes ==
  {o \in Outcomes({"get_uaserver_host", "get_app_data", "stop_app"}) :
     /\ EndsCall(o, "get_uaserver_host", {"get_app_data", "stop_app"})
     /\ EndsCall(o, "get_app_data", {"stop_app"})}

GetApplicationInfo ==
  \E o \in ApplicationInfoOutcomes :
    Return("get_application_info", <<>>, <<>>, get_application_info(World, o))

GetAppPort ==
  \E appname \in StatusKeys, o \in AppDataOutcomes :
    Return("get_app_port", <<>>, appname, get_app_port(World, appname, o))

DoesAppExist ==
  \E appname \in StatusKeys, o \in AppDataOutcomes :
    Return("does_app_exist", <<>>, appname, does_app_exist(World, appname, o))

DeleteApp ==
  \E appname \in StatusKeys, o \in DeleteOutcomes :
    Return("delete_app", <<>>, appname, delete_app(World, appname, o))

NextApps ==
  \/ GetApplicationInfo
  \/ GetAppPort
  \/ DoesAppExist
  \/ DeleteApp
  \/ Handled

SpecApps == InitApps /\ [][NextApps]_vars

----------------------------------------------------------------------------
(* Claims *)

\* The RPCs of the last call that ended in out.
HasCall(op, rpc, out) ==
  \E i \in 1..Len(op.calls) : op.calls[i] = <<rpc, out>>
\* Some RPC of the call raised.
SomeRaise(op) == \E i \in 1..Len(op.calls) : op.calls[i][2] = "raise"
\* The call reached rpc.
Reached(op, rpc) == \E i \in 1..Len(op.calls) : op.calls[i][1] = rpc

\* The directory's latest-token record of e is the token login issued.
LoggedInAt(dir, e) == e \in DOMAIN dir.tokens /\ dir.tokens[e] = e

(* C1: after logout_user ran for the identity of the request, the token   *)
(* that login committed for it is no longer the latest valid one.         *)
C1_LogoutInvalidates ==
  (lastOp.op = "logout_user" /\ lastOp.user # <<>>)
    => ~LoggedInAt(directory, lastOp.user)

\* The password presented hashes to the one stored for the identity.
PasswordMatches(dir, e, password) ==
  /\ e \in DOMAIN dir.users
  /\ dir.users[e].password = encrypt_password(e, password)

(* C2: login_user returns True, commits a token or sets the cookie only   *)
(* when the encrypted password equals the stored hash; in every other     *)
(* case it returns False, commits no token and sets no cookie.            *)
C2_LoginOnlyOnMatch ==
  [][lastOp'.op = "login_user" =>
       LET match == PasswordMatches(directory, lastOp'.email, lastOp'.arg)
           effect == \/ Reached(lastOp', "commit_new_token")
                     \/ directory' # directory
                     \/ response' # response
       IN  /\ (lastOp'.ret = PyTrue \/ effect) => match
           /\ ~match => (lastOp'.ret = PyFalse /\ lastOp'.exc = "none"
                          /\ ~effect)]_vars

C2_Witness ==
  /\ lastOp.op = "login_user"
  /\ lastOp.ret = PyTrue
  /\ response.kind = "set"
  /\ LoggedInAt(directory, lastOp.email)
  /\ HasCall(lastOp, "commit_new_token", "ok")

(* C3: when the get_user_data RPC raises during login_user, login_user    *)
(* returns False, raises nothing, and leaves the response cookie and the  *)
(* token records as they were.                                            *)
C3_LoginLookupRaises ==
  [][(lastOp'.op = "login_user" /\ HasCall(lastOp', "get_user_data", "raise"))
       => /\ lastOp'.ret = PyFalse
          /\ lastOp'.exc = "none"
          /\ response' = response
          /\ directory' = directory]_vars

C3_Witness ==
  /\ lastOp.op = "login_user"
  /\ HasCall(lastOp, "get_user_data", "raise")
  /\ lastOp.ret = PyFalse
  /\ PasswordMatches(directory, lastOp.email, lastOp.arg)

\* The benign defaults: the empty list, the empty string, False (an empty
\* dict is returned by no method of the model).
Benign == {PyList(<<>>), PyStr(<<>>), PyFalse}

(* C4: when an RPC of i_can_upload, get_user_app_list,                    *)
(* get_user_capabilities or get_host_with_role raises, the call yields    *)
(* its benign default or an AppHelperException, and no other exception.   *)
C4_RpcFailureIsBenign ==
  (/\ lastOp.op \in {"i_can_upload", "get_user_app_list",
                     "get_user_capabilities", "get_host_with_role"}
   /\ SomeRaise(lastOp))
    => \/ lastOp.exc = "AppHelperException"
       \/ lastOp.exc = "none" /\ lastOp.ret \in Benign

(* C5, as claimed: an identity goes from LOGGED_OUT to LOGGED_IN only by  *)
(* a successful login_user, and from LOGGED_IN to LOGGED_OUT only by      *)
(* logout_user.                                                           *)
C5_OnlyLoginLogsIn ==
  [][\A e \in Users :
       /\ (~LoggedInAt(directory, e) /\ LoggedInAt(directory', e))
            => (lastOp'.op = "login_user" /\ lastOp'.email = e
                /\ lastOp'.ret = PyTrue)
       /\ (LoggedInAt(directory, e) /\ ~LoggedInAt(directory', e))
            => (lastOp'.op = "logout_user" /\ lastOp'.user = e)]_vars

(* C5, amended: an identity never registered is LOGGED_OUT; an identity   *)
(* goes from LOGGED_OUT to LOGGED_IN only by a successful login_user or a *)
(* successful create_new_user for it, which also sets the login cookie,   *)
(* and from LOGGED_IN to LOGGED_OUT only by logout_user.                  *)
C5_LoginOrCreateLogsIn ==
  /\ [](\A e \in Users :
          LoggedInAt(directory, e) => e \in DOMAIN directory.users)
  /\ [][\A e \in Users :
          /\ (~LoggedInAt(directory, e) /\ LoggedInAt(directory', e))
               => (/\ lastOp'.op \in {"login_user", "create_new_user"}
                   /\ lastOp'.email = e
                   /\ lastOp'.ret = PyTrue
                   /\ response'.kind = "set"
                   /\ SplitOn(unquote(response'.value), ":")[1] = e)
          /\ (LoggedInAt(directory, e) /\ ~LoggedInAt(directory', e))
               => (lastOp'.op = "logout_user" /\ lastOp'.user = e)]_vars

C5_Witness ==
  /\ lastOp.op = "create_new_user"
  /\ lastOp.ret = PyTrue
  /\ LoggedInAt(directory, lastOp.email)
  /\ response.kind = "set"

\* u holds exactly one '@'.
ExactlyOneAt(u) == Cardinality(Positions(u, "@")) = 1
\* The substring of u before its '@'.
BeforeAt(u) == SubSeq(u, 1, (CHOOSE i \in Positions(u, "@") : TRUE) - 1)
\* digest(u || nick || apps || secret)
DigestOf(u, apps) ==
  sha1_hexdigest(u \o BeforeAt(u) \o apps \o GLOBAL_SECRET_KEY)
\* The four fields of the credential of u and apps.
FieldsOf(u, apps) == <<u, BeforeAt(u), apps, DigestOf(u, apps)>>

(* C6, as claimed: for an identity with exactly one '@' and application   *)
(* names without ':', percent-decoding the value of get_cookie_value and  *)
(* splitting it on ':' gives exactly the four fields that went in.        *)
C6_RoundTrip ==
  (lastOp.op = "get_cookie_value" /\ ExactlyOneAt(lastOp.email))
    => /\ lastOp.exc = "none"
       /\ SplitOn(unquote(lastOp.ret.val), ":")
            = FieldsOf(lastOp.email, lastOp.arg)

(* C6, amended: the same for an identity with exactly one '@' and no ':'. *)
C6_RoundTripNoColon ==
  (/\ lastOp.op = "get_cookie_value"
   /\ ExactlyOneAt(lastOp.email)
   /\ Positions(lastOp.email, ":") = {})
    => /\ lastOp.exc = "none"
       /\ SplitOn(unquote(lastOp.ret.val), ":")
            = FieldsOf(lastOp.email, lastOp.arg)

C6_Witness ==
  /\ lastOp.op = "get_cookie_value"
  /\ ExactlyOneAt(lastOp.email)
  /\ Positions(lastOp.email, ":") = {}
  /\ Positions(lastOp.email, "%") # {}
  /\ Len(directory.users[lastOp.email].applications) = 2
  /\ lastOp.ret.kind = "str"

\* u : nick : apps : digest
CredentialOf(u, apps) ==
  u \o <<":">> \o BeforeAt(u) \o <<":">> \o apps \o <<":">> \o DigestOf(u, apps)

\* The directory's application list of u, joined with ','.
DirApps(u) == JoinWith(directory.users[u].applications, ",")

C8_CreateNewUser ==
  lastOp.op = "create_new_user" =>
    /\ lastOp.ret = PyTrue =>
         Cardinality({i \in 1..Len(lastOp.calls) :
                        lastOp.calls[i] = <<"commit_new_user", "true">>}) = 2
    /\ (SomeRaise(lastOp)
         \/ HasCall(lastOp, "commit_new_user", "Error: user already exists"))
         => lastOp.exc = "AppHelperException"
    /\ lastOp.exc = "AppHelperException"
         => ~Reached(lastOp, "commit_new_token")

\* The answer of upload_tgz in the last call.
UploadAnswer(a) == HasCall(lastOp, "upload_tgz", a)

(* C9, as claimed: upload_app returns the success message only when a     *)
(* user is logged in and upload_tgz reported success; with no user it     *)
(* raises AppHelperException without calling the controller; every        *)
(* failure, a fault raised by the RPC included, raises                    *)
(* AppHelperException.                                                    *)
C9_UploadFailuresRaise ==
  lastOp.op = "upload_app" =>
    /\ lastOp.ret = UploadedMessage
         => (lastOp.user # <<>> /\ UploadAnswer("true"))
    /\ lastOp.user = <<>>
         => (lastOp.exc = "AppHelperException" /\ lastOp.calls = <<>>)
    /\ (\E a \in {"false", "faultType", "HTTPError", "raise"} :
          UploadAnswer(a))
         => lastOp.exc = "AppHelperException"

(* C9, amended: upload_app returns the success message only when a user   *)
(* is logged in and upload_tgz returned 'true' or raised a SOAP fault or  *)
(* an HTTP error; with no user it raises AppHelperException without       *)
(* calling the controller; any other answer or exception of upload_tgz    *)
(* raises AppHelperException.                                             *)
C9_UploadFaultIsSuccess ==
  lastOp.op = "upload_app" =>
    /\ lastOp.ret = UploadedMessage
         <=> (/\ lastOp.user # <<>>
              /\ \E a \in {"true", "faultType", "HTTPError"} : UploadAnswer(a))
    /\ lastOp.user = <<>>
         => (lastOp.exc = "AppHelperException" /\ lastOp.calls = <<>>)
    /\ (UploadAnswer("false") \/ UploadAnswer("raise"))
         => lastOp.exc = "AppHelperException"
    /\ lastOp.exc \in {"none", "AppHelperException"}

C9_Witness ==
  /\ lastOp.op = "upload_app"
  /\ lastOp.user # <<>>
  /\ UploadAnswer("faultType")
  /\ lastOp.ret = UploadedMessage

(* C10: an add_user_permissions or remove_user_permissions for a          *)
(* registered user that returns False leaves every cached capability      *)
(* list as it was, and a list it caches is the one the directory          *)
(* returned.                                                              *)
C10_RejectedPermissionNotCached ==
  [][(/\ lastOp'.op \in {"add_user_permissions", "remove_user_permissions"}
      /\ lastOp'.email \in DOMAIN directory.users
      /\ lastOp'.ret = PyFalse)
      => \A e \in DOMAIN cache'.user_caps :
           cache'.user_caps[e] =
             IF e \in DOMAIN cache.user_caps THEN cache.user_caps[e]
             ELSE uas_get_capabilities(directory, e)]_vars

\* The port a record names, as get_application_info writes it, and the
\* records that name none.
WrittenPort(text) ==
  CASE text = Port80Text -> <<"8", "0">>
    [] text = Port08Text -> <<"8">>
    [] text = Port0Text -> <<"0">>
    [] OTHER -> <<>>
\* The first status node's 'apps' mapping, in the order it is iterated.
FirstNodeApps == directory.stats[1].apps
\* The application names of the mapping, the placeholder apart.
ListedApps ==
  {FirstNodeApps[i][1] : i \in 1..Len(FirstNodeApps)} \ {<<"none">>}
IsRunning(app) ==
  \E i \in 1..Len(FirstNodeApps) : FirstNodeApps[i] = <<app, TRUE>>

(* C11: get_application_info returns a dict whose keys are the            *)
(* application names of the first status node's 'apps' mapping other than *)
(* 'none', whatever the order of the mapping; an application that is not  *)
(* running has the value None, a running one whose lookups answered has   *)
(* its URL when its record names a port and None when it names none; an   *)
(* empty status list gives the empty dict.                                *)
C11_ApplicationInfo ==
  lastOp.op = "get_application_info" =>
    /\ lastOp.exc = "none"
    /\ lastOp.ret.kind = "dict"
    /\ IF HasCall(lastOp, "get_stats", "raise") \/ directory.stats = <<>>
       THEN lastOp.ret = PyDict(<<>>)
       ELSE /\ DOMAIN lastOp.ret.val = ListedApps
            /\ \A app \in ListedApps :
                 /\ ~IsRunning(app) => lastOp.ret.val[app] = PyNone
                 /\ (IsRunning(app) /\ ~SomeRaise(lastOp)) =>
                      lastOp.ret.val[app] =
                        IF WrittenPort(uas_get_app_data(directory, app)) = <<>>
                        THEN PyNone
                        ELSE PyStr(<<"http://", "i", ":">> \o
                               WrittenPort(uas_get_app_data(directory, app)))

\* The directory's record of the application names a positive port.
HasPositivePort(dir, appname) ==
  /\ appname \in DOMAIN dir.apps
  /\ dir.apps[appname] \in {Port80Text, Port08Text}
\* The call made rpc, which ended in out, and an earlier RPC of it was
\* get_app_data, which answered.
AfterLookup(op, rpc) ==
  \E i, j \in 1..Len(op.calls) :
    /\ i < j
    /\ op.calls[i] = <<"get_app_data", "ok">>
    /\ op.calls[j][1] = rpc

(* C12: delete_app calls stop_app only after the existence lookup         *)
(* answered for an application with a positive port (does_app_exist       *)
(* returned True); it returns the success message only if stop_app        *)
(* answered 'true'; it never raises, and when the application does not    *)
(* exist, the lookup raises, or stop_app answers anything else or raises, *)
(* it returns one of the two non-success messages.                        *)
C12_DeleteApp ==
  lastOp.op = "delete_app" =>
    /\ lastOp.exc = "none"
    /\ lastOp.ret \in {RemovedMessage, NotRunningMessage, RemoveErrorMessage}
    /\ Reached(lastOp, "stop_app") =>
         /\ HasPositivePort(directory, lastOp.arg)
         /\ AfterLookup(lastOp, "stop_app")
    /\ lastOp.ret = RemovedMessage => HasCall(lastOp, "stop_app", "true")
    /\ (\/ ~HasPositivePort(directory, lastOp.arg)
        \/ SomeRaise(lastOp)
        \/ \E a \in {"false", "None"} : HasCall(lastOp, "stop_app", a))
         => lastOp.ret \in {NotRunningMessage, RemoveErrorMessage}

\* delete_app removed a running application, after the lookup.
C12_Witness ==
  /\ lastOp.op = "delete_app"
  /\ HasPositivePort(directory, lastOp.arg)
  /\ AfterLookup(lastOp, "stop_app")
  /\ HasCall(lastOp, "stop_app", "true")
  /\ lastOp.ret = RemovedMessage

====
